---- MODULE Spec2Model ----
(***************************************************************************)
(* A model of BaseMixin (src/src/base/base-mixin.ts): the filter set and   *)
(* its pluggable default handlers, the application of filters to the       *)
(* crossfilter dimension, the render lifecycle with its deferred           *)
(* renderlet continuation, the cached size, the configuration, and the     *)
(* chart group with its commit handler.                                    *)
(***************************************************************************)
EXTENDS Integers, Sequences, FiniteSets, TLC

VARIABLES
    _filters,       \* this._filters: the ordered filter values
    _conf,          \* this._conf: the configuration record (modelled keys)
    dimFilter,      \* the filter currently applied on the crossfilter dimension
    siblingFilters, \* the _filters of another chart bound to the same dimension
    _root,          \* this._root: TRUE when a root selection is attached
    controls,       \* visibility of the .reset/.filter controls under the root
    _svg,           \* this._svg: TRUE when a drawing surface exists
    _group,         \* this._group: TRUE when a crossfilter group is bound
    _legend,        \* this._legend: TRUE when a legend is attached
    _mandatoryAttributesList,  \* this._mandatoryAttributesList
    _width,         \* this._width: cached width, 0 for undefined
    _height,        \* this._height: cached height, 0 for undefined
    pending,        \* transition 'end' callbacks scheduled and not yet run
    _widthCalc,     \* this._widthCalc: what computes the width
    _heightCalc,    \* this._heightCalc: what computes the height
    _anchor,        \* this._anchor: where the chart is attached
    _isChild,       \* this._isChild: undefined, true or false
    _chartGroup,    \* this._chartGroup: the name of the chart's group
    charts,         \* the registry: the member charts of each group, in order
    commits,        \* invocations of the commit handler not yet completed
    call,           \* the last public call: [op, arg, ret, threw]
    trace,          \* what the last step did, in order (handlers, events, ...)
    before,         \* the chart and the registry as they were before the last
                    \* call
    before2         \* the same before the previous call, kept when the last
                    \* two calls are the same filter(v)

vars == << _filters, _conf, dimFilter, siblingFilters, _root, controls, _svg, _group, _legend,
           _mandatoryAttributesList, _width, _height, pending,
           _widthCalc, _heightCalc, _anchor, _isChild, _chartGroup, charts,
           commits, call, trace, before, before2 >>

filterVars == << _filters, dimFilter, controls >>
renderVars == << _svg, _group, _legend, _mandatoryAttributesList, _width,
                 _height, pending >>
sizeVars == << _widthCalc, _heightCalc >>
groupVars == << _anchor, _isChild, _chartGroup, charts, commits >>

----------------------------------------------------------------------------
(* Bounds of the model *)

\* plain filter values and record keys are the numbers 1..MaxPlain
MaxPlain == 2
\* at most MaxPending transition callbacks are outstanding at a time
MaxPending == 2
\* at most MaxCommits invocations of the commit handler await completion
MaxCommits == 2

----------------------------------------------------------------------------
(* JavaScript values that reach the filter API.  A value is a record        *)
(* [k, xs, items]: k the kind, xs the numbers it holds (read as the         *)
(* elements of the array for the array-based dc filter objects), items the  *)
(* inner values of a batch marker [[v1, .., vn]].                           *)

Undefined == [k |-> "undefined", xs |-> << >>, items |-> << >>]
Null == [k |-> "null", xs |-> << >>, items |-> << >>]
Num(n) == [k |-> "num", xs |-> << n >>, items |-> << >>]
\* filters.RangedFilter(lo, hi): the array [lo, hi] carrying isFiltered
RangedFilter(lo, hi) ==
    [k |-> "RangedFilter", xs |-> << lo, hi >>, items |-> << >>]
\* filters.RangedTwoDimensionalFilter([[x0, y0], [x1, y1]]): an array of
\* arrays carrying isFiltered
RangedTwoDimensionalFilter(x0, y0, x1, y1) ==
    [k |-> "RangedTwoDimensionalFilter", xs |-> << x0, y0, x1, y1 >>,
     items |-> << >>]
\* [[v1, .., vn]]: an array holding one array of values, no isFiltered
Batch(vs) == [k |-> "batch", xs |-> << >>, items |-> vs]

PlainValues == { Num(n) : n \in 1..MaxPlain }
PredicateValues ==
    { RangedFilter(1, 3), RangedTwoDimensionalFilter(0, 0, 2, 2) }
Values == PlainValues \cup PredicateValues
\* the keys of the records held by the dimension
Records == { Num(n) : n \in 0..(MaxPlain + 1) }
\* batch markers: distinct values, a value twice, plain and predicate mixed
Batches ==
    { Batch(<< Num(1), Num(2) >>), Batch(<< Num(2), Num(2) >>),
      Batch(<< RangedFilter(1, 3), Num(1) >>),
      Batch(<< Num(2), RangedFilter(1, 3), Num(1) >>) }
\* what callers pass to filter(x) and replaceFilter(x)
FilterArgs == Values \cup Batches \cup {Null}

----------------------------------------------------------------------------
(* The relational operators of JavaScript on these values.  An array is     *)
(* converted to the string of its elements joined by commas and a number    *)
(* stays a number; two strings compare by code units, a number against      *)
(* such a string compares against NaN, which makes every comparison false.  *)
(* The numbers of the model are single digits, so the order of the joined   *)
(* strings is the lexicographic order of the element sequences.             *)

isArray(v) == v.k \in {"RangedFilter", "RangedTwoDimensionalFilter"}

LexLess(s, t) ==
    \E i \in 1..(Len(t)) :
        /\ \A j \in 1..(i - 1) : j <= Len(s) /\ s[j] = t[j]
        /\ \/ i = Len(s) + 1
           \/ i <= Len(s) /\ s[i] < t[i]

\* one side converts to NaN
JsNaN(a, b) == isArray(a) # isArray(b)

\* a < b
JsLess(a, b) ==
    IF JsNaN(a, b) THEN FALSE
    ELSE IF isArray(a) THEN LexLess(a.xs, b.xs)
    ELSE a.xs[1] < b.xs[1]

\* a <= b
JsLE(a, b) == ~JsNaN(a, b) /\ ~JsLess(b, a)

\* a >= b
JsGE(a, b) == ~JsNaN(a, b) /\ ~JsLess(a, b)

\* filter.isFiltered is defined (the value is a dc filter object)
hasIsFiltered(f) == f.k \in {"RangedFilter", "RangedTwoDimensionalFilter"}

\* filter.filterType
filterType(f) == IF hasIsFiltered(f) THEN f.k ELSE "undefined"

\* filter.isFiltered(value) of the dc filter objects.  RangedFilter:
\* value >= this[0] && value < this[1].  RangedTwoDimensionalFilter: the
\* same half-open test on x and on y, where an array value gives x and y and
\* a scalar value gives x, with y taken from the filter's bottom-left corner.
isFiltered(f, value) ==
    IF f.k = "RangedFilter"
    THEN JsGE(value, Num(f.xs[1])) /\ JsLess(value, Num(f.xs[2]))
    ELSE LET x == IF isArray(value) THEN Num(value.xs[1]) ELSE value
             y == IF isArray(value) THEN Num(value.xs[2]) ELSE Num(f.xs[2])
         IN  /\ JsGE(x, Num(f.xs[1])) /\ JsLess(x, Num(f.xs[3]))
             /\ JsGE(y, Num(f.xs[2])) /\ JsLess(y, Num(f.xs[4]))

----------------------------------------------------------------------------
(* Entries of the trace of a step *)

Ev(e, arg, fs) == [e |-> e, arg |-> arg, fs |-> fs, acc |-> {}]
DimEv(e, arg, acc) == [e |-> e, arg |-> arg, fs |-> << >>, acc |-> acc]

\* the entries of tr whose name is in names
Only(tr, names) == SelectSeq(tr, LAMBDA x : x.e \in names)

DimensionCalls == {"dimension.filter", "dimension.filterExact",
                   "dimension.filterRange", "dimension.filterFunction"}

----------------------------------------------------------------------------
(* The default handlers *)

\* faulty variant: the closed-range test of the predicate with its upper half lost
predicateAcceptsHalfOpen(filter, d) ==
    IF hasIsFiltered(filter) THEN isFiltered(filter, d)
    ELSE JsLE(filter, d)

\* the body of the loop of the predicate handed to dimension.filterFunction:
\* whether one filter makes it return true for the record key d
predicateAccepts(filter, d) ==
    IF hasIsFiltered(filter) THEN isFiltered(filter, d)
    ELSE JsLE(filter, d) /\ JsGE(filter, d)

\* the predicate handed to dimension.filterFunction, as the set of record
\* keys it returns true for
filterFunctionPredicate(filters) ==
    { d \in Records :
        \E i \in 1..Len(filters) : predicateAccepts(filters[i], d) }

\* faulty variant: every single filter object is handed to filterRange
defaultFilterHandlerAllRanges(filters) ==
    [ dim |->
        IF Len(filters) = 0
        THEN DimEv("dimension.filter", Null, {})
        ELSE IF Len(filters) = 1 /\ ~hasIsFiltered(filters[1])
        THEN DimEv("dimension.filterExact", filters[1], {})
        ELSE IF Len(filters) = 1
        THEN DimEv("dimension.filterRange", filters[1], {})
        ELSE DimEv("dimension.filterFunction", Undefined,
                   filterFunctionPredicate(filters)),
      ret |-> filters ]

\* _defaultFilterHandler(dimension, filters): the call it makes on the
\* dimension and the list it returns
defaultFilterHandler(filters) ==
    [ dim |->
        IF Len(filters) = 0
        THEN DimEv("dimension.filter", Null, {})
        ELSE IF Len(filters) = 1 /\ ~hasIsFiltered(filters[1])
        THEN DimEv("dimension.filterExact", filters[1], {})
        ELSE IF Len(filters) = 1 /\ filterType(filters[1]) = "RangedFilter"
        THEN DimEv("dimension.filterRange", filters[1], {})
        ELSE DimEv("dimension.filterFunction", Undefined,
                   filterFunctionPredicate(filters)),
      ret |-> filters ]

\* faulty variant: the no-argument test off by one
defaultHasFilterHandlerOffByOne(filters, filter) ==
    IF filter = Null \/ filter = Undefined
    THEN Len(filters) > 1
    ELSE \E i \in 1..Len(filters) :
            JsLE(filter, filters[i]) /\ JsGE(filter, filters[i])

\* faulty variant: the probe test with its upper half lost
defaultHasFilterHandlerHalfOpen(filters, filter) ==
    IF filter = Null \/ filter = Undefined
    THEN Len(filters) > 0
    ELSE \E i \in 1..Len(filters) : JsLE(filter, filters[i])

\* faulty variant: the probe test with strict comparisons, which no value
\* passes
defaultHasFilterHandlerStrict(filters, filter) ==
    IF filter = Null \/ filter = Undefined
    THEN Len(filters) > 0
    ELSE \E i \in 1..Len(filters) :
            JsLess(filter, filters[i]) /\ JsLess(filters[i], filter)

defaultHasFilterHandler(filters, filter) ==
    IF filter = Null \/ filter = Undefined
    THEN Len(filters) > 0
    ELSE \E i \in 1..Len(filters) :
            JsLE(filter, filters[i]) /\ JsGE(filter, filters[i])

\* the index the loop of _defaultRemoveFilterHandler stops at, 0 for none
removeIndex(filters, filter) ==
    IF \E i \in 1..Len(filters) :
          JsLE(filters[i], filter) /\ JsGE(filters[i], filter)
    THEN CHOOSE i \in 1..Len(filters) :
            /\ JsLE(filters[i], filter) /\ JsGE(filters[i], filter)
            /\ \A j \in 1..(i - 1) :
                  ~(JsLE(filters[j], filter) /\ JsGE(filters[j], filter))
    ELSE 0

\* faulty variant: splice(i) in place of splice(i, 1): the tail goes as well
defaultRemoveFilterHandlerTail(filters, filter) ==
    LET i == removeIndex(filters, filter) IN
    IF i = 0 THEN filters ELSE SubSeq(filters, 1, i - 1)

defaultRemoveFilterHandler(filters, filter) ==
    LET i == removeIndex(filters, filter) IN
    IF i = 0 THEN filters
    ELSE SubSeq(filters, 1, i - 1) \o SubSeq(filters, i + 1, Len(filters))

\* faulty variant: unshift in place of push
defaultAddFilterHandlerFront(filters, filter) == << filter >> \o filters

defaultAddFilterHandler(filters, filter) == Append(filters, filter)

defaultResetFilterHandler(filters) == << >>

----------------------------------------------------------------------------
(* The filter operations of the chart.  Each operator computes what the     *)
(* method does from the state it starts in: the new filter list, the call   *)
(* made on the dimension (if any) and the trace of handlers and events.     *)

\* one toggle of filter(): has -> remove, otherwise add
toggle(r, f) ==
    IF defaultHasFilterHandler(r.filters, f)
    THEN [filters |-> defaultRemoveFilterHandler(r.filters, f),
          trace |-> r.trace \o << Ev("hasFilterHandler", f, r.filters),
                                  Ev("removeFilterHandler", f, r.filters) >>]
    ELSE [filters |-> defaultAddFilterHandler(r.filters, f),
          trace |-> r.trace \o << Ev("hasFilterHandler", f, r.filters),
                                  Ev("addFilterHandler", f, r.filters) >>]

\* faulty variant: every element of the batch is tested against the list the call
\* started with
RECURSIVE toggleEachStale(_, _)
toggleEachStale(r, items) ==
    IF items = << >> THEN r
    ELSE LET f == Head(items)
             rest == toggleEachStale(r, Tail(items))
         IN  IF defaultHasFilterHandler(r.filters, f)
             THEN [filters |-> defaultRemoveFilterHandler(rest.filters, f),
                   trace |-> << Ev("hasFilterHandler", f, r.filters),
                                Ev("removeFilterHandler", f, r.filters) >>
                             \o rest.trace]
             ELSE [filters |-> << f >> \o rest.filters,
                   trace |-> << Ev("hasFilterHandler", f, r.filters),
                                Ev("addFilterHandler", f, r.filters) >>
                             \o rest.trace]

\* filter[0].forEach(f => toggle f), each on the list left by the one before
RECURSIVE toggleEach(_, _)
toggleEach(r, items) ==
    IF items = << >> THEN r
    ELSE toggleEach(toggle(r, Head(items)), Tail(items))

\* filter instanceof Array && filter[0] instanceof Array
isArrayOfArrays(filter) == filter.k \in {"batch", "RangedTwoDimensionalFilter"}

\* the test of the batch branch of filter()
isBatch(filter) == isArrayOfArrays(filter) /\ ~hasIsFiltered(filter)

\* the filter handlers a chart is configured with: the default one, one that
\* returns nothing, one that returns another list than it was given, one
\* that throws
FilterHandlers ==
    {"default", "returnsUndefined", "returnsReversed", "throws"}

Reverse(seq) == [i \in 1..Len(seq) |-> seq[Len(seq) + 1 - i]]

\* this._conf.filterHandler(dimension, filters): the calls it makes on the
\* dimension, the list it returns (returned: it is not undefined), and
\* whether it throws
filterHandler(kind, filters) ==
    LET h == defaultFilterHandler(filters) IN
    IF kind = "throws"
    THEN [dim |-> << >>, ret |-> filters, returned |-> FALSE, threw |-> TRUE]
    ELSE [dim |-> << h.dim >>,
          ret |-> IF kind = "returnsReversed" THEN Reverse(h.ret) ELSE h.ret,
          returned |-> kind # "returnsUndefined",
          threw |-> FALSE]

\* faulty variant: applyFilters that keeps the list it was given
applyFiltersKeepsOwn(conf, filters) ==
    IF conf.dimension = "crossfilter"
    THEN LET h == filterHandler(conf.filterHandler, filters) IN
         [filters |-> filters,
          dim |-> h.dim,
          trace |-> << Ev("filterHandler", Undefined, filters) >> \o h.dim
                    \o (IF h.threw THEN << Ev("Error", Undefined, filters) >>
                        ELSE << >>)]
    ELSE [filters |-> filters, dim |-> << >>, trace |-> << >>]

\* applyFilters(filters): the list it returns, what it did on the dimension,
\* and the exception of the handler, if any, as the last entry of the trace
applyFilters(conf, filters) ==
    IF conf.dimension = "crossfilter"
    THEN LET h == filterHandler(conf.filterHandler, filters) IN
         [filters |-> IF h.returned THEN h.ret ELSE filters,
          dim |-> h.dim,
          trace |-> << Ev("filterHandler", Undefined, filters) >> \o h.dim
                    \o (IF h.threw THEN << Ev("Error", Undefined, filters) >>
                        ELSE << >>)]
    ELSE [filters |-> filters, dim |-> << >>, trace |-> << >>]

\* the last entry of a trace is an exception: the step ended by throwing
Throws(tr) ==
    tr # << >> /\ tr[Len(tr)].e \in {"InvalidStateException", "TypeError",
                                     "Error"}

\* turnOnControls() / turnOffControls(): they act only under a root
turnControls(root, on, old) ==
    IF root THEN (IF on THEN "shown" ELSE "hidden") ELSE old

\* faulty variant: the filtered listener is invoked before the filters are applied
filterSetFiresFirst(conf, root, ctl, fs, filter, tr0) ==
    LET r0 == [filters |-> fs, trace |-> tr0]
        r1 == IF isBatch(filter) THEN toggleEach(r0, filter.items)
              ELSE IF filter = Null
              THEN [filters |-> defaultResetFilterHandler(fs),
                    trace |-> tr0 \o << Ev("resetFilterHandler", Null, fs) >>]
              ELSE toggle(r0, filter)
        ap == applyFilters(conf, r1.filters)
        on == defaultHasFilterHandler(ap.filters, Undefined)
    IN  [filters |-> ap.filters,
         dim |-> ap.dim,
         controls |-> turnControls(root, on, ctl),
         trace |-> r1.trace \o << Ev("filtered", filter, fs) >> \o ap.trace \o
                   << Ev("hasFilterHandler", Undefined, ap.filters),
                      Ev(IF on THEN "turnOnControls" ELSE "turnOffControls",
                         Undefined, ap.filters) >>]

\* faulty variant: the apply handler is given the list as it was before
\* the toggle, and the toggled list is stored
filterSetAppliesFirst(conf, root, ctl, fs, filter, tr0) ==
    LET r0 == [filters |-> fs, trace |-> tr0]
        r1 == IF isBatch(filter) THEN toggleEach(r0, filter.items)
              ELSE IF filter = Null
              THEN [filters |-> defaultResetFilterHandler(fs),
                    trace |-> tr0 \o << Ev("resetFilterHandler", Null, fs) >>]
              ELSE toggle(r0, filter)
        ap == applyFilters(conf, fs)
        on == defaultHasFilterHandler(r1.filters, Undefined)
    IN  [filters |-> r1.filters,
         dim |-> ap.dim,
         controls |-> turnControls(root, on, ctl),
         trace |-> r1.trace \o ap.trace
                   \o << Ev("filtered", filter, r1.filters),
                         Ev("hasFilterHandler", Undefined, r1.filters),
                         Ev(IF on THEN "turnOnControls" ELSE "turnOffControls",
                            Undefined, r1.filters) >>]

\* filter(filter) called with an argument, from the list fs
filterSet(conf, root, ctl, fs, filter, tr0) ==
    LET r0 == [filters |-> fs, trace |-> tr0]
        r1 == IF isBatch(filter) THEN toggleEach(r0, filter.items)
              ELSE IF filter = Null
              THEN [filters |-> defaultResetFilterHandler(fs),
                    trace |-> tr0 \o << Ev("resetFilterHandler", Null, fs) >>]
              ELSE toggle(r0, filter)
        ap == applyFilters(conf, r1.filters)
        fired == IF filter # Undefined
                 THEN << Ev("filtered", filter, ap.filters) >> ELSE << >>
        on == defaultHasFilterHandler(ap.filters, Undefined)
    IN  IF Throws(ap.trace)
        THEN \* the default add and remove handlers have changed the array
             \* this._filters refers to; the list of the reset handler is a
             \* new array, not stored yet
             [filters |-> IF filter = Null THEN fs ELSE r1.filters,
              dim |-> ap.dim,
              controls |-> ctl,
              trace |-> r1.trace \o ap.trace]
        ELSE
        [filters |-> ap.filters,
         dim |-> ap.dim,
         controls |-> turnControls(root, on, ctl),
         trace |-> r1.trace \o ap.trace \o fired \o
                   << Ev("hasFilterHandler", Undefined, ap.filters),
                      Ev(IF on THEN "turnOnControls" ELSE "turnOffControls",
                         Undefined, ap.filters) >>]

\* faulty variant: replaceFilter as filter(null).filter(filter)
replaceFilterSetTwice(conf, root, ctl, fs, filter) ==
    LET a == filterSet(conf, root, ctl, fs, Null, << >>)
        b == filterSet(conf, root, a.controls, a.filters, filter, a.trace)
    IN  [b EXCEPT !.dim = a.dim \o b.dim]

\* faulty variant: replaceFilter that does not reset the list first
replaceFilterSetNoReset(conf, root, ctl, fs, filter) ==
    filterSet(conf, root, ctl, fs, filter,
              << Ev("resetFilterHandler", Undefined, fs) >>)

\* replaceFilter(filter)
replaceFilterSet(conf, root, ctl, fs, filter) ==
    filterSet(conf, root, ctl, defaultResetFilterHandler(fs), filter,
              << Ev("resetFilterHandler", Undefined, fs) >>)

\* faulty variant: a dimension that keeps the filter it has until it is
\* cleared
dimAfterFirstWins(old, dim) ==
    IF dim = << >> \/ old.op # "dimension.filter" THEN old
    ELSE [op |-> dim[Len(dim)].e, arg |-> dim[Len(dim)].arg,
          acc |-> dim[Len(dim)].acc]

\* the filter left on the dimension by a step that made the calls dim on it
dimAfter(old, dim) ==
    IF dim = << >> THEN old
    ELSE [op |-> dim[Len(dim)].e, arg |-> dim[Len(dim)].arg,
          acc |-> dim[Len(dim)].acc]

\* a dimension with no filter applied: as created, or after filter(null)
DimClear == [op |-> "dimension.filter", arg |-> Null, acc |-> {}]

Snapshot ==
    [filters |-> _filters, dimFilter |-> dimFilter, conf |-> _conf,
     width |-> _width, height |-> _height, root |-> _root,
     widthCalc |-> _widthCalc, heightCalc |-> _heightCalc,
     anchor |-> _anchor, isChild |-> _isChild, chartGroup |-> _chartGroup,
     charts |-> charts, pending |-> pending,
     siblingFilters |-> siblingFilters]
NoSnapshot == [filters |-> << Undefined >>]

\* return values
This == [k |-> "this", xs |-> << >>, items |-> << >>]
Bool(b) == [k |-> IF b THEN "true" ELSE "false", xs |-> << >>, items |-> << >>]
Threw(e) == [k |-> e, xs |-> << >>, items |-> << >>]
\* what a filter call that did the steps tr returns
Returns(tr) == IF Throws(tr) THEN Threw("Error") ELSE This

----------------------------------------------------------------------------
(* The initial states: a chart as constructed (lines 114-182) and then      *)
(* configured with its dimension and, or not, a root.                       *)

\* _conf.dimension: not set, an object without a filter method, a dimension
DimensionKinds == {"undefined", "nofilter", "crossfilter"}
\* the default transitionDuration of the constructor
DefaultTransitionDuration == 750
\* the default minWidth and minHeight of the constructor
DefaultMinSize == 200

\* the keys of the configuration whose values are objects
ObjectKeys == {"margins"}

\* faulty variant: a merge that descends into nested objects
configureDeep(old, conf) ==
    [key \in (DOMAIN old) \cup (DOMAIN conf) |->
        IF key \notin DOMAIN conf THEN old[key]
        ELSE IF key \in ObjectKeys /\ key \in DOMAIN old
        THEN [k \in (DOMAIN old[key]) \cup (DOMAIN conf[key]) |->
                 IF k \in DOMAIN conf[key] THEN conf[key][k] ELSE old[key][k]]
        ELSE conf[key]]

\* configure(conf): {...this._conf, ...conf}
configure(old, conf) ==
    [key \in (DOMAIN old) \cup (DOMAIN conf) |->
        IF key \in DOMAIN conf THEN conf[key] ELSE old[key]]

\* the configuration the constructor leaves
ConstructorConf ==
    [dimension |-> "undefined",
     transitionDuration |-> DefaultTransitionDuration,
     useViewBoxResizing |-> FALSE,
     minWidth |-> DefaultMinSize,
     minHeight |-> DefaultMinSize,
     commitHandler |-> "undefined",
     filterHandler |-> "default"]

\* what computes a size: the default calculator, a fixed number, or a
\* function of the root node given by the caller
DefaultCalc == [kind |-> "default", n |-> 0]
FixedCalc(n) == [kind |-> "fixed", n |-> n]
CustomCalc == [kind |-> "custom", n |-> 0]

\* the names under which the registry holds groups; "default" is the group
\* chartRegistry.chartGroup(undefined) gives
GroupNames == {"default", "g1"}

\* the other chart that is a member of group g from the start
SiblingOf(g) == IF g = "default" THEN "sibling0" ELSE "sibling1"

Init ==
    /\ _filters = << >>
    /\ \E d \in DimensionKinds :
          _conf = configure(ConstructorConf, [dimension |-> d])
    /\ dimFilter = DimClear
    /\ siblingFilters = << >>
    /\ _root \in BOOLEAN
    /\ controls = "initial"
    /\ _svg = FALSE
    /\ _group = FALSE
    /\ _legend = FALSE
    /\ _mandatoryAttributesList = << "dimension", "group" >>
    /\ _width = 0
    /\ _height = 0
    /\ pending = << >>
    /\ _widthCalc = DefaultCalc
    /\ _heightCalc = DefaultCalc
    /\ _anchor = "undefined"
    /\ _isChild = "undefined"
    /\ _chartGroup = "undefined"
    /\ charts = [g \in GroupNames |-> << SiblingOf(g) >>]
    /\ commits = << >>
    /\ call = [op |-> "new", arg |-> Undefined, ret |-> This]
    /\ trace = << >>
    /\ before = NoSnapshot
    /\ before2 = NoSnapshot

----------------------------------------------------------------------------
(* The filter API *)

\* chart.filter(x) for an x of args
FilterWith(args) ==
    \E x \in args :
        \E r \in { filterSet(_conf, _root, controls, _filters, x, << >>) } :
        /\ _filters' = r.filters
        /\ dimFilter' = dimAfter(dimFilter, r.dim)
        /\ controls' = r.controls
        /\ trace' = r.trace
        /\ call' = [op |-> "filter", arg |-> x, ret |-> Returns(r.trace)]
        /\ before' = Snapshot
        /\ before2' = IF call.op = "filter" /\ call.arg = x
                      THEN before ELSE NoSnapshot
        /\ UNCHANGED << siblingFilters, sizeVars, groupVars, _conf, _root, renderVars >>

\* chart.filter(x)
Filter == FilterWith(FilterArgs)

\* chart.filter(): the first filter, or null
FilterGet ==
    /\ call' = [op |-> "filterGet", arg |-> Undefined,
                ret |-> IF Len(_filters) > 0 THEN _filters[1] ELSE Null]
    /\ trace' = << >>
    /\ before' = Snapshot
    /\ before2' = NoSnapshot
    /\ UNCHANGED << siblingFilters, sizeVars, groupVars, _conf, _root, filterVars, renderVars >>

\* chart.replaceFilter(x) for an x of args
ReplaceFilterWith(args) ==
    \E x \in args :
        \E r \in { replaceFilterSet(_conf, _root, controls, _filters, x) } :
        /\ _filters' = r.filters
        /\ dimFilter' = dimAfter(dimFilter, r.dim)
        /\ controls' = r.controls
        /\ trace' = r.trace
        /\ call' = [op |-> "replaceFilter", arg |-> x,
                   ret |-> Returns(r.trace)]
        /\ before' = Snapshot
        /\ before2' = NoSnapshot
        /\ UNCHANGED << siblingFilters, sizeVars, groupVars, _conf, _root, renderVars >>

\* chart.replaceFilter(x)
ReplaceFilter == ReplaceFilterWith(FilterArgs)

\* chart.filterAll(): filter(null)
FilterAll ==
    \E r \in { filterSet(_conf, _root, controls, _filters, Null, << >>) } :
    /\ _filters' = r.filters
    /\ dimFilter' = dimAfter(dimFilter, r.dim)
    /\ controls' = r.controls
    /\ trace' = r.trace
    /\ call' = [op |-> "filterAll", arg |-> Null, ret |-> Returns(r.trace)]
    /\ before' = Snapshot
    /\ before2' = NoSnapshot
    /\ UNCHANGED << siblingFilters, sizeVars, groupVars, _conf, _root, renderVars >>

\* what callers pass to hasFilter(x); Undefined stands for no argument
Probes == Values \cup Records \cup {Undefined, Null}

\* chart.hasFilter(x)
HasFilter ==
    \E x \in Probes :
        /\ call' = [op |-> "hasFilter", arg |-> x,
                    ret |-> Bool(defaultHasFilterHandler(_filters, x))]
        /\ trace' = << Ev("hasFilterHandler", x, _filters) >>
        /\ before' = Snapshot
        /\ before2' = NoSnapshot
        /\ UNCHANGED << siblingFilters, sizeVars, groupVars, _conf, _root, filterVars, renderVars >>

\* chart.root(rootElement): attach a root selection, or none
Root ==
    \E r \in BOOLEAN :
        /\ _root' = r
        /\ call' = [op |-> "root", arg |-> Undefined, ret |-> This]
        /\ trace' = << >>
        /\ before' = Snapshot
        /\ before2' = NoSnapshot
        /\ UNCHANGED << siblingFilters, sizeVars, groupVars, _conf, filterVars, renderVars >>

FilterNext == Filter \/ FilterGet \/ ReplaceFilter \/ FilterAll \/ HasFilter

FilterSpec == Init /\ [][FilterNext]_vars

----------------------------------------------------------------------------
(* Rendering.  The trace of a render or redraw names its steps in order;    *)
(* a transition 'end' callback is kept in pending until the transition of   *)
(* the drawing surface ends.                                                *)

Attr(a) == [k |-> a, xs |-> << >>, items |-> << >>]
Step(e) == Ev(e, Undefined, << >>)

\* the widths and heights getBoundingClientRect() may report for the root
BoxSizes == {100, 300}

\* faulty variant: the default calculator without the minimum
defaultCalcUnfloored(side, min) == side

\* _defaultWidthCalc / _defaultHeightCalc on a box side, with the minimum
defaultCalc(side, min) == IF side > min THEN side ELSE min

\* this[a] is a method of the chart: group is, dimension is not (the
\* dimension lives in _conf and has no accessor method)
hasMethod(a) == a \in {"group"}

\* this[a]() for the methods there are
attribute(a, group) == a = "group" /\ group

\* !this[a] || !this[a]()
isMissing(a, group) == ~hasMethod(a) \/ ~attribute(a, group)

\* the forEach of render() over the mandatory attributes: the checks made,
\* ending with the exception of the first attribute found missing
RECURSIVE checkForMandatoryAttributes(_, _)
checkForMandatoryAttributes(list, group) ==
    IF list = << >> THEN << >>
    ELSE IF isMissing(Head(list), group)
    THEN << Ev("checkForMandatoryAttributes", Attr(Head(list)), << >>),
            Ev("InvalidStateException", Attr(Head(list)), << >>) >>
    ELSE << Ev("checkForMandatoryAttributes", Attr(Head(list)), << >>) >>
         \o checkForMandatoryAttributes(Tail(list), group)

\* faulty variant: a transition is started whether or not there is a surface
isDeferredWithoutSurface(conf, svg) == conf.transitionDuration > 0

\* transitionDuration > 0 && this._svg
isDeferred(conf, svg) == conf.transitionDuration > 0 /\ svg

\* faulty variant: renderlet and the terminal event fire at once although a
\* transition runs
activateRenderletsAtOnce(conf, svg, event) ==
    IF isDeferred(conf, svg)
    THEN << Step("pretransition"), Step("transition"), Step("renderlet"),
            Step(event) >>
    ELSE << Step("pretransition"), Step("renderlet"), Step(event) >>

\* _activateRenderlets(event): what fires at once
activateRenderlets(conf, svg, event) ==
    IF isDeferred(conf, svg)
    THEN << Step("pretransition"), Step("transition") >>
    ELSE << Step("pretransition"), Step("renderlet"), Step(event) >>

\* faulty variant: an 'end' callback that fires the terminal event first
onTransitionEndTerminalFirst(event) == << Step(event), Step("renderlet") >>

\* the body of the transition's 'end' callback
onTransitionEnd(event) == << Step("renderlet"), Step(event) >>

\* faulty variant: a call made while a callback waits schedules none of its
\* own
scheduleCoalesced(waiting, conf, svg, event) ==
    IF conf.transitionDuration > 0 /\ svg /\ waiting = << >>
    THEN << event >> ELSE waiting

\* the 'end' callbacks waiting after _activateRenderlets(event): one more,
\* for event, when a transition was started
schedule(waiting, conf, svg, event) ==
    IF isDeferred(conf, svg) THEN Append(waiting, event) ELSE waiting

\* the mandatory-attribute lists charts set with _mandatoryAttributes(list)
MandatoryLists == { << "dimension", "group" >>, << "group" >>, << >> }

\* the function a caller gives to width(f) or height(f), on the box side of
\* the root node it is called with
customCalc(side) == side + 1

\* this._widthCalc(element) / this._heightCalc(element)
calcSize(c, side, min) ==
    IF c.kind = "fixed" THEN c.n
    ELSE IF c.kind = "custom" THEN customCalc(side)
    ELSE defaultCalc(side, min)

\* faulty variant: width() / height() that computes on every read
sizeGetUncached(cached, c, root, side, min) ==
    IF ~root THEN [size |-> cached, threw |-> TRUE]
    ELSE [size |-> calcSize(c, side, min), threw |-> FALSE]

\* width() / height() without argument: the cached size when there is one,
\* else what the calculator gives for the root node; this._root.node()
\* throws when there is no root
sizeGet(cached, c, root, side, min) ==
    IF cached # 0 THEN [size |-> cached, threw |-> FALSE]
    ELSE IF ~root THEN [size |-> cached, threw |-> TRUE]
    ELSE [size |-> calcSize(c, side, min), threw |-> FALSE]

\* render(): its steps, what it returns, and the size and callbacks it leaves
render ==
    LET tr == << Step("preRender") >>
              \o checkForMandatoryAttributes(_mandatoryAttributesList, _group)
    IN  IF Throws(tr)
        THEN [trace |-> tr, ret |-> Threw("InvalidStateException"),
              width |-> 0, height |-> 0, pending |-> pending]
        ELSE [trace |-> tr \o << Step("_doRender") >>
                        \o (IF _legend THEN << Step("legend.render") >>
                            ELSE << >>)
                        \o activateRenderlets(_conf, _svg, "postRender"),
              ret |-> This,
              width |-> 0, height |-> 0,
              pending |-> schedule(pending, _conf, _svg, "postRender")]

\* faulty variant: a redraw() that draws before it fires preRedraw and tags
\* its renderlet activation postRender
redrawAsRender(w, h) ==
    LET sized == _svg /\ ~_conf.useViewBoxResizing
        wd == sizeGet(_width, _widthCalc, _root, w, _conf.minWidth)
        ht == sizeGet(_height, _heightCalc, _root, h, _conf.minHeight)
    IN  IF sized /\ (wd.threw \/ ht.threw)
        THEN [trace |-> << Step("sizeSvg"), Step("TypeError") >>,
              ret |-> Threw("TypeError"),
              width |-> wd.size, height |-> _height, pending |-> pending]
        ELSE [trace |-> << Step("sizeSvg"), Step("_doRedraw"),
                           Step("preRedraw") >>
                        \o (IF _legend THEN << Step("legend.render") >>
                            ELSE << >>)
                        \o activateRenderlets(_conf, _svg, "postRender"),
              ret |-> This,
              width |-> IF sized THEN wd.size ELSE _width,
              height |-> IF sized THEN ht.size ELSE _height,
              pending |-> IF (_conf.transitionDuration > 0 /\ _svg)
                          THEN Append(pending, "postRender") ELSE pending]

\* redraw() when the root's box is w by h; sizeSvg() reads width() and then
\* height() when there is a drawing surface
redraw(w, h) ==
    LET sized == _svg /\ ~_conf.useViewBoxResizing
        wd == sizeGet(_width, _widthCalc, _root, w, _conf.minWidth)
        ht == sizeGet(_height, _heightCalc, _root, h, _conf.minHeight)
    IN  IF sized /\ (wd.threw \/ ht.threw)
        THEN [trace |-> << Step("sizeSvg"), Step("TypeError") >>,
              ret |-> Threw("TypeError"),
              width |-> wd.size, height |-> _height, pending |-> pending]
        ELSE [trace |-> << Step("sizeSvg"), Step("preRedraw"),
                           Step("_doRedraw") >>
                        \o (IF _legend THEN << Step("legend.render") >>
                            ELSE << >>)
                        \o activateRenderlets(_conf, _svg, "postRedraw"),
              ret |-> This,
              width |-> IF sized THEN wd.size ELSE _width,
              height |-> IF sized THEN ht.size ELSE _height,
              pending |-> schedule(pending, _conf, _svg, "postRedraw")]

\* the chart after a call op that did r
Drawn(op, r) ==
    /\ Len(r.pending) <= MaxPending
    /\ _width' = r.width
    /\ _height' = r.height
    /\ pending' = r.pending
    /\ trace' = r.trace
    /\ call' = [op |-> op, arg |-> Undefined, ret |-> r.ret]
    /\ before' = Snapshot
    /\ before2' = NoSnapshot

\* chart.render()
Render ==
    \E r \in { render } :
        /\ Drawn("render", r)
        /\ UNCHANGED << siblingFilters, sizeVars, groupVars, _conf, _root, filterVars, _svg,
                        _group, _legend, _mandatoryAttributesList >>

\* chart.redraw()
Redraw ==
    \E w, h \in BoxSizes :
        \E r \in { redraw(w, h) } :
            /\ Drawn("redraw", r)
            /\ UNCHANGED << siblingFilters, sizeVars, groupVars, _conf, _root, filterVars,
                            _svg, _group, _legend, _mandatoryAttributesList >>

\* the transition of the drawing surface ends: its 'end' callback runs
TransitionEnd ==
    \E i \in 1..Len(pending) :
        /\ trace' = onTransitionEnd(pending[i])
        /\ pending' = SubSeq(pending, 1, i - 1)
                      \o SubSeq(pending, i + 1, Len(pending))
        /\ call' = [op |-> "transitionEnd", arg |-> Undefined, ret |-> This]
        /\ before' = Snapshot
        /\ before2' = NoSnapshot
        /\ UNCHANGED << siblingFilters, sizeVars, groupVars, _conf, _root, filterVars, _svg, _group, _legend,
                        _mandatoryAttributesList, _width, _height >>

Setter(op) ==
    /\ call' = [op |-> op, arg |-> Undefined, ret |-> This]
    /\ trace' = << >>
    /\ before' = Snapshot
    /\ before2' = NoSnapshot

\* chart.svg(svgElement)
Svg ==
    \E e \in BOOLEAN :
        /\ _svg' = e
        /\ Setter("svg")
        /\ UNCHANGED << siblingFilters, sizeVars, groupVars, _conf, _root, filterVars, _group, _legend,
                        _mandatoryAttributesList, _width, _height, pending >>

\* chart.group(group)
Group ==
    \E g \in BOOLEAN :
        /\ _group' = g
        /\ Setter("group")
        /\ UNCHANGED << siblingFilters, sizeVars, groupVars, _conf, _root, filterVars, _svg, _legend,
                        _mandatoryAttributesList, _width, _height, pending >>

\* chart.legend(legend)
Legend ==
    /\ _legend' = TRUE
    /\ Setter("legend")
    /\ UNCHANGED << siblingFilters, sizeVars, groupVars, _conf, _root, filterVars, _svg, _group,
                    _mandatoryAttributesList, _width, _height, pending >>

\* chart._mandatoryAttributes(list)
MandatoryAttributes ==
    \E list \in MandatoryLists :
        /\ _mandatoryAttributesList' = list
        /\ Setter("_mandatoryAttributes")
        /\ UNCHANGED << siblingFilters, sizeVars, groupVars, _conf, _root, filterVars, _svg, _group, _legend,
                        _width, _height, pending >>

\* chart.configure(conf) for a conf of patches; it returns nothing
ConfigureWith(patches) ==
    \E conf \in patches :
        /\ _conf' = configure(_conf, conf)
        /\ call' = [op |-> "configure", arg |-> conf, ret |-> Undefined]
        /\ trace' = << >>
        /\ before' = Snapshot
        /\ before2' = NoSnapshot
        /\ UNCHANGED << siblingFilters, sizeVars, groupVars, _root, filterVars, renderVars >>

\* chart.configure({transitionDuration: d})
Configure ==
    ConfigureWith({ [transitionDuration |-> d] :
                        d \in {0, DefaultTransitionDuration} })

\* the configuration objects callers pass in the configuration model: none,
\* one or two keys, and a key whose value is an object
Patches ==
    { << >>,
      [minWidth |-> 100],
      [minWidth |-> 300, minHeight |-> 100],
      [transitionDuration |-> 0, minHeight |-> 300],
      [margins |-> [top |-> 10]],
      [margins |-> [left |-> 30]],
      [margins |-> [top |-> 20, left |-> 30], transitionDuration |-> 0] }

\* chart.configure(conf)
ConfigureAny == ConfigureWith(Patches)

ConfigSpec == Init /\ [][ConfigureAny]_vars

----------------------------------------------------------------------------
(* The size of the chart: width and height are computed on the first read   *)
(* and cached until render() or a setter discards them.                     *)

\* the number callers pass to width(n) and height(n)
FixedSize == 150

\* a function of the root node, as callers pass to width(f) and height(f)
Function == [k |-> "function", xs |-> << >>, items |-> << >>]

\* what callers pass to width(x) and height(x)
SizeArgs == {Num(0), Null, Num(FixedSize), Function}

\* x ? (typeof x === 'function' ? x : () => x) : the default calculator
calcOf(x) ==
    IF x \in {Num(0), Null} THEN DefaultCalc
    ELSE IF x = Function THEN CustomCalc
    ELSE FixedCalc(x.xs[1])

\* the call of width() or height() that found cached and did r for box side
SizeRead(op, calcName, cached, r, side) ==
    /\ call' = [op |-> op, arg |-> Undefined,
                ret |-> IF r.threw THEN Threw("TypeError") ELSE Num(r.size)]
    /\ trace' = IF cached # 0 THEN << >>
                ELSE IF r.threw THEN << Step("TypeError") >>
                ELSE << Ev(calcName, Num(side), << >>) >>
    /\ before' = Snapshot
    /\ before2' = NoSnapshot

\* chart.width()
WidthGet ==
    \E w \in BoxSizes :
        \E r \in { sizeGet(_width, _widthCalc, _root, w, _conf.minWidth) } :
            /\ _width' = r.size
            /\ SizeRead("widthGet", "_widthCalc", _width, r, w)
            /\ UNCHANGED << siblingFilters, sizeVars, groupVars, _conf, _root, filterVars,
                            _svg, _group, _legend, _mandatoryAttributesList,
                            _height, pending >>

\* chart.height()
HeightGet ==
    \E h \in BoxSizes :
        \E r \in { sizeGet(_height, _heightCalc, _root, h, _conf.minHeight) } :
            /\ _height' = r.size
            /\ SizeRead("heightGet", "_heightCalc", _height, r, h)
            /\ UNCHANGED << siblingFilters, sizeVars, groupVars, _conf, _root, filterVars,
                            _svg, _group, _legend, _mandatoryAttributesList,
                            _width, pending >>

\* chart.width(x)
Width ==
    \E x \in SizeArgs :
        /\ _widthCalc' = calcOf(x)
        /\ _width' = 0
        /\ call' = [op |-> "width", arg |-> x, ret |-> This]
        /\ trace' = << >>
        /\ before' = Snapshot
        /\ before2' = NoSnapshot
        /\ UNCHANGED << siblingFilters, _heightCalc, groupVars, _conf, _root, filterVars,
                        _svg, _group, _legend, _mandatoryAttributesList,
                        _height, pending >>

\* chart.height(x)
Height ==
    \E x \in SizeArgs :
        /\ _heightCalc' = calcOf(x)
        /\ _height' = 0
        /\ call' = [op |-> "height", arg |-> x, ret |-> This]
        /\ trace' = << >>
        /\ before' = Snapshot
        /\ before2' = NoSnapshot
        /\ UNCHANGED << siblingFilters, _widthCalc, groupVars, _conf, _root, filterVars,
                        _svg, _group, _legend, _mandatoryAttributesList,
                        _width, pending >>

SizeNext ==
    \/ Width \/ Height \/ WidthGet \/ HeightGet
    \/ Render \/ Redraw \/ TransitionEnd \/ Svg \/ MandatoryAttributes

SizeSpec == Init /\ [][SizeNext]_vars

----------------------------------------------------------------------------

RenderNext ==
    \/ Render \/ Redraw \/ TransitionEnd
    \/ Svg \/ Group \/ Legend \/ MandatoryAttributes \/ Configure \/ Root

RenderSpec == Init /\ [][RenderNext]_vars

----------------------------------------------------------------------------
(* The chart group.  The registry holds, for each group name, the member    *)
(* charts in the order of their registration; "this" is the chart of the    *)
(* model, the other members are its siblings.                               *)

isMember(members, chart) == \E i \in DOMAIN members : members[i] = chart

\* group.register(chart): the chart is a member, after those there were
register(members, chart) ==
    IF isMember(members, chart) THEN members ELSE Append(members, chart)

\* group.deregister(chart): the chart is no member
deregister(members, chart) == SelectSeq(members, LAMBDA m : m # chart)

\* _getChartGroup(chartGroup): the registry's default group for no name
_getChartGroup(chartGroup) ==
    IF chartGroup = "undefined" THEN "default" ELSE chartGroup

\* the group arguments of anchor(parent, group) and chartGroup(group)
GroupArgs == {"undefined", "g1"}

\* the anchor of the chart that a child chart is given as its parent
ParentAnchor == "#parent"
\* the parents of anchor(parent, group): none, a selector, a chart
Parents == {"undefined", "#a", "#b", "chart"}

\* chart.anchor(parent, chartGroup)
Anchor ==
    \E parent \in Parents, g \in GroupArgs :
        /\ _chartGroup' = _getChartGroup(g)
        /\ IF parent = "chart"
           THEN /\ _anchor' = ParentAnchor
                /\ _root' = TRUE
                /\ _isChild' = "true"
                /\ UNCHANGED charts
                /\ trace' = << >>
           ELSE IF parent # "undefined"
           THEN /\ _anchor' = parent
                /\ _root' = TRUE
                /\ charts' = [charts EXCEPT ![_getChartGroup(g)] =
                                 register(@, "this")]
                /\ _isChild' = "false"
                /\ trace' = << Ev("register", Attr(_getChartGroup(g)), << >>) >>
           ELSE /\ UNCHANGED << _anchor, _root, _isChild, charts >>
                /\ trace' = << Step("BadArgumentException") >>
        /\ call' = [op |-> "anchor",
                    arg |-> [parent |-> parent, chartGroup |-> g],
                    ret |-> IF parent = "undefined"
                            THEN Threw("BadArgumentException") ELSE This]
        /\ before' = Snapshot
        /\ before2' = NoSnapshot
        /\ UNCHANGED << siblingFilters, sizeVars, commits, _conf, filterVars, renderVars >>

\* chart.chartGroup(chartGroup)
ChartGroup ==
    \E g \in GroupArgs :
        /\ IF _isChild # "true" /\ _chartGroup = "undefined"
           THEN \* this._chartGroup.deregister on an undefined group
                /\ UNCHANGED << _chartGroup, charts >>
                /\ trace' = << Step("TypeError") >>
                /\ call' = [op |-> "chartGroup",
                            arg |-> [chartGroup |-> g],
                            ret |-> Threw("TypeError")]
           ELSE /\ _chartGroup' = _getChartGroup(g)
                /\ IF _isChild # "true"
                   THEN /\ charts' =
                             [h \in GroupNames |->
                                 IF h = _getChartGroup(g)
                                 THEN register(
                                          IF h = _chartGroup
                                          THEN deregister(charts[h], "this")
                                          ELSE charts[h], "this")
                                 ELSE IF h = _chartGroup
                                 THEN deregister(charts[h], "this")
                                 ELSE charts[h]]
                        /\ trace' = << Ev("deregister", Attr(_chartGroup), << >>),
                                       Ev("register", Attr(_getChartGroup(g)),
                                          << >>) >>
                   ELSE /\ UNCHANGED charts
                        /\ trace' = << >>
                /\ call' = [op |-> "chartGroup",
                            arg |-> [chartGroup |-> g], ret |-> This]
        /\ before' = Snapshot
        /\ before2' = NoSnapshot
        /\ UNCHANGED << siblingFilters, sizeVars, _anchor, _isChild, commits, _conf, _root,
                        filterVars, renderVars >>

\* a call that leaves the size and the scheduled callbacks as they are
NoEffect(tr, ret) ==
    [trace |-> tr, ret |-> ret, width |-> _width, height |-> _height,
     pending |-> pending]

\* the calls of render() or redraw() on the members, in order
memberCalls(kind, members) ==
    [i \in 1..Len(members) |-> Ev(kind, Attr(members[i]), << >>)]

AllOf(kind) == IF kind = "render" THEN "renderAll" ELSE "redrawAll"

\* this.chartGroup().renderAll() / redrawAll(): kind on every member, in the
\* order of membership; what this chart's own render() or redraw() does is
\* part of it, and an exception of it ends the iteration
fanOut(kind, w, h) ==
    IF _chartGroup = "undefined"
    THEN NoEffect(<< Step("TypeError") >>, Threw("TypeError"))
    ELSE LET members == charts[_chartGroup]
             r == IF kind = "render" THEN render ELSE redraw(w, h)
         IN  IF ~isMember(members, "this")
             THEN NoEffect(<< Step(AllOf(kind)) >> \o memberCalls(kind, members),
                           This)
             ELSE LET i == CHOOSE j \in DOMAIN members : members[j] = "this"
                  IN  [r EXCEPT
                         !.trace = << Step(AllOf(kind)) >>
                                   \o memberCalls(kind, SubSeq(members, 1, i))
                                   \o r.trace
                                   \o (IF Throws(r.trace) THEN << >>
                                       ELSE memberCalls(kind,
                                              SubSeq(members, i + 1,
                                                     Len(members))))]

\* faulty variant: a completion callback that fans out whatever it is told
callbackIgnoringError(error, kind, w, h) ==
    LET r == fanOut(kind, w, h)
    IN  [r EXCEPT !.trace = << Ev("callback", Bool(error), << >>) >> \o @]

\* the completion callback given to the commit handler:
\* (error, result) => { if (error) console.log(error) else fan out }
callback(error, kind, w, h) ==
    IF error
    THEN NoEffect(<< Ev("callback", Bool(TRUE), << >>), Step("console.log") >>,
                  Undefined)
    ELSE LET r == fanOut(kind, w, h)
         IN  [r EXCEPT !.trace = << Ev("callback", Bool(FALSE), << >>) >> \o @]

\* the flag renderGroup() and redrawGroup() pass to the commit handler
commitFlag(kind) == FALSE

\* what a commit handler does with the callback when it is invoked: it keeps
\* it for later, or calls it at once with an error or with none
Modes == {"later", "error", "ok"}
\* without a handler there is nothing to choose
ModesOf(conf) == IF conf.commitHandler # "undefined" THEN Modes ELSE {"later"}

\* the box sides a redraw of this chart may read: sizeSvg() reads the size
\* only with a drawing surface
BoxesRead == IF _svg THEN BoxSizes ELSE {0}

\* faulty variant: a group call that fans out before it invokes the
\* commit handler
groupCallEager(kind, mode, w, h) ==
    LET r == fanOut(kind, w, h) IN
    IF _conf.commitHandler # "undefined"
    THEN [r EXCEPT !.trace =
                      @ \o << Ev("commitHandler", Bool(commitFlag(kind)),
                                 << >>) >>]
    ELSE r

\* redrawGroup() / renderGroup() with a handler that behaves as mode
groupCall(kind, mode, w, h) ==
    IF _conf.commitHandler # "undefined"
    THEN LET invoked == << Ev("commitHandler", Bool(commitFlag(kind)), << >>) >>
         IN  IF mode = "later" THEN NoEffect(invoked, This)
             ELSE LET r == callback(mode = "error", kind, w, h)
                  IN  [r EXCEPT !.trace = invoked \o @,
                                !.ret = IF Throws(r.trace) THEN @ ELSE This]
    ELSE fanOut(kind, w, h)

GroupCall(op, kind) ==
    \E mode \in ModesOf(_conf), w, h \in BoxesRead :
        \E r \in { groupCall(kind, mode, w, h) } :
            /\ Drawn(op, r)
            /\ IF _conf.commitHandler # "undefined" /\ mode = "later"
               THEN /\ Len(commits) < MaxCommits
                    /\ commits' = Append(commits, [flag |-> commitFlag(kind),
                                                   then |-> kind])
               ELSE UNCHANGED commits
            /\ UNCHANGED << siblingFilters, sizeVars, _anchor, _isChild, _chartGroup, charts,
                            _conf, _root, filterVars, _svg, _group, _legend,
                            _mandatoryAttributesList >>

\* chart.redrawGroup()
RedrawGroup == GroupCall("redrawGroup", "redraw")

\* chart.renderGroup()
RenderGroup == GroupCall("renderGroup", "render")

\* the commit handler completes an invocation it kept: it calls the callback
CommitCallback ==
    \E i \in DOMAIN commits, error \in BOOLEAN, w, h \in BoxesRead :
        \E r \in { callback(error, commits[i].then, w, h) } :
            /\ Drawn("commitCallback", r)
            /\ commits' = SubSeq(commits, 1, i - 1)
                          \o SubSeq(commits, i + 1, Len(commits))
            /\ UNCHANGED << siblingFilters, sizeVars, _anchor, _isChild, _chartGroup, charts,
                            _conf, _root, filterVars, _svg, _group, _legend,
                            _mandatoryAttributesList >>

\* chart.configure({filterHandler: h})
ConfigureFilterHandler ==
    ConfigureWith({ [filterHandler |-> h] : h \in FilterHandlers })

\* what callers pass to filter(x) and replaceFilter(x) in the model of the
\* configured handlers: a number, a range, a batch that adds or removes
\* the number, null
HandlerArgs ==
    { Num(1), RangedFilter(1, 3), Batch(<< Num(1), Num(2) >>), Null }

HandlerNext ==
    \/ FilterWith(HandlerArgs) \/ ReplaceFilterWith(HandlerArgs)
    \/ FilterAll \/ ConfigureFilterHandler

HandlerSpec == Init /\ [][HandlerNext]_vars

\* chart.configure({commitHandler: h})
ConfigureCommitHandler ==
    ConfigureWith({ [commitHandler |-> c] : c \in {"undefined", "handler"} })

GroupNext ==
    \/ Anchor \/ ChartGroup \/ RedrawGroup \/ RenderGroup \/ CommitCallback
    \/ ConfigureCommitHandler \/ MandatoryAttributes

GroupSpec == Init /\ [][GroupNext]_vars

----------------------------------------------------------------------------
(* Two charts on one dimension.  The sibling is another BaseMixin, as its   *)
(* constructor leaves it, configured with the dimension of this chart.      *)

\* the configuration of the sibling chart
SiblingConf == configure(ConstructorConf, [dimension |-> _conf.dimension])

\* what callers pass to filter(x) of either chart in the model of the
\* shared dimension
SharedArgs == { Num(1), Num(2), RangedFilter(1, 3), Null }

\* sibling.filter(x): the sibling's own filter list, the shared dimension
SiblingFilter ==
    \E x \in SharedArgs :
        \E r \in { filterSet(SiblingConf, FALSE, "initial", siblingFilters,
                             x, << >>) } :
        /\ siblingFilters' = r.filters
        /\ dimFilter' = dimAfter(dimFilter, r.dim)
        /\ trace' = r.trace
        /\ call' = [op |-> "sibling.filter", arg |-> x,
                    ret |-> Returns(r.trace),
                    prev |-> [op |-> call.op, arg |-> call.arg]]
        /\ before' = Snapshot
        /\ before2' = NoSnapshot
        /\ UNCHANGED << _filters, controls, sizeVars, groupVars, _conf, _root,
                        renderVars >>

SharedNext == FilterWith(SharedArgs) \/ SiblingFilter

SharedSpec == Init /\ [][SharedNext]_vars

Next == SharedNext \/ FilterNext \/ RenderNext \/ GroupNext \/ HandlerNext \/ SizeNext \/ ConfigureAny

Spec == Init /\ [][Next]_vars

----------------------------------------------------------------------------
(* Properties of the filter set *)

Range(seq) == { seq[i] : i \in 1..Len(seq) }
Mutators == {"filter", "replaceFilter", "filterAll"}
Bound == _conf.dimension = "crossfilter"

\* the last two calls were filter(v), filter(v) for the same filter value v
ToggledTwice ==
    call.op = "filter" /\ call.arg # Null /\ before2 # NoSnapshot

\* C1: toggle is its own inverse: after filter(v); filter(v) the filter set
\* holds the same values as before the two calls (in possibly another order)
\* and the dimension has the same filter applied as before them.
C1_ToggleTwiceRestores ==
    ToggledTwice =>
        /\ Range(_filters) = Range(before2.filters)
        /\ Len(_filters) = Len(before2.filters)
        /\ dimFilter = before2.dimFilter

C1_Witness ==
    /\ ToggledTwice /\ Bound
    /\ call.arg \in Values
    /\ Len(_filters) >= 2
    /\ _filters # before2.filters
    /\ dimFilter.op = "dimension.filterFunction"

\* C2: replaceFilter(v) calls the filter handler once (when a dimension is
\* bound; there is nothing to call otherwise), makes one call on the
\* dimension and fires filtered once, whatever was held before; the handler,
\* the dimension and the listener are given the final filter set, never the
\* cleared one in between.
C2_ReplaceAppliesOnce ==
    call.op = "replaceFilter" =>
        /\ Len(Only(trace, {"filterHandler"})) = (IF Bound THEN 1 ELSE 0)
        /\ Len(Only(trace, DimensionCalls)) = (IF Bound THEN 1 ELSE 0)
        /\ Len(Only(trace, {"filtered"})) = 1
        /\ \A i \in 1..Len(trace) :
              /\ trace[i].e = "filterHandler" => trace[i].fs = _filters
              /\ trace[i].e \in DimensionCalls =>
                    trace[i] = defaultFilterHandler(_filters).dim
              /\ trace[i].e = "filtered" =>
                    trace[i].fs = _filters /\ trace[i].arg = call.arg

C2_Witness ==
    /\ call.op = "replaceFilter" /\ Bound
    /\ Len(before.filters) >= 2
    /\ call.arg \in Values
    /\ _filters = << call.arg >>
    /\ Len(Only(trace, {"filterHandler"})) = 1

\* C3: hasFilter() with no argument returns true exactly when the filter
\* sequence is not empty; the same reading at the end of a mutation decides
\* whether the filter controls are shown.
C3_HasFilterNoArg ==
    /\ (call.op = "hasFilter" /\ call.arg = Undefined) =>
           (call.ret = Bool(TRUE) <=> Len(_filters) > 0)
    /\ (call.op \in Mutators /\ _root) =>
           (controls = "shown" <=> Len(_filters) > 0)

C3_Witness ==
    /\ call.op = "hasFilter" /\ call.arg = Undefined
    /\ call.ret = Bool(TRUE)
    /\ Len(_filters) = 1

\* C4 as the spec has it: hasFilter(x) is true exactly when some filter of
\* the set accepts x by the test of the apply predicate (isFiltered for a
\* filter object, the closed range for a plain value).
C4_HasFilterUsesPredicate ==
    (call.op = "hasFilter" /\ call.arg \notin {Undefined, Null}) =>
        (call.ret = Bool(TRUE) <=>
            \E i \in 1..Len(_filters) : predicateAccepts(_filters[i], call.arg))

\* C4, amended: hasFilter(x) for a non-null x is true exactly when x compares
\* equal to some filter of the set, that is when x itself is one of the
\* filters; isFiltered of a filter object is not consulted.
C4_HasFilterIsMembership ==
    (call.op = "hasFilter" /\ call.arg \notin {Undefined, Null}) =>
        (call.ret = Bool(TRUE) <=> call.arg \in Range(_filters))

C4_Witness ==
    /\ call.op = "hasFilter" /\ call.arg = Num(1)
    /\ _filters = << RangedFilter(1, 3) >>
    /\ isFiltered(_filters[1], call.arg)
    /\ call.ret = Bool(FALSE)

\* the call the apply handler is to make for a filter list, by its shape
ShapeCall(fs) ==
    IF Len(fs) = 0 THEN "dimension.filter"
    ELSE IF Len(fs) = 1 /\ fs[1] \in PlainValues THEN "dimension.filterExact"
    ELSE IF Len(fs) = 1 /\ fs[1].k = "RangedFilter" THEN "dimension.filterRange"
    ELSE "dimension.filterFunction"

\* C5: each invocation of the default apply handler makes one call on the
\* dimension, chosen by the shape of the list: filter(null) for the empty
\* list, filterExact(v) for one plain value, filterRange(f) for one ranged
\* filter, filterFunction for every other list; the list comes back unchanged
\* and is the one stored.
C5_ApplyByShape ==
    call.op \in Mutators =>
        /\ Len(Only(trace, DimensionCalls)) = Len(Only(trace, {"filterHandler"}))
        /\ \A i \in 1..Len(trace) :
              trace[i].e = "filterHandler" =>
                /\ i < Len(trace)
                /\ trace[i + 1].e = ShapeCall(trace[i].fs)
                /\ trace[i + 1].e = "dimension.filter" =>
                      trace[i + 1].arg = Null
                /\ trace[i + 1].e \in {"dimension.filterExact",
                                       "dimension.filterRange"} =>
                      trace[i + 1].arg = trace[i].fs[1]
                /\ _filters = trace[i].fs
                /\ dimFilter.op = trace[i + 1].e
                /\ dimFilter.arg = trace[i + 1].arg

C5_Witness ==
    /\ call.op \in Mutators
    /\ _filters = << RangedTwoDimensionalFilter(0, 0, 2, 2) >>
    /\ Len(Only(trace, {"dimension.filterFunction"})) = 1

\* C6: the predicate given to filterFunction accepts a record key d exactly
\* when some filter of the list accepts it: a filter object by isFiltered(d),
\* a plain value when d is that value; for two plain values it accepts
\* exactly those two.
C6_PredicateAcceptsAny ==
    (call.op \in Mutators /\ dimFilter.op = "dimension.filterFunction") =>
        /\ dimFilter.acc =
              { d \in Records :
                  \E f \in Range(_filters) :
                      IF f \in PredicateValues THEN isFiltered(f, d) ELSE f = d }
        /\ Range(_filters) \subseteq PlainValues =>
              dimFilter.acc = Range(_filters)

C6_Witness ==
    /\ call.op \in Mutators
    /\ dimFilter.op = "dimension.filterFunction"
    /\ _filters = << Num(2), Num(1) >>
    /\ dimFilter.acc = { Num(1), Num(2) }

\* C7: filter(v) for a plain value v that is not in the filter set appends v
\* after the filters already there, and hasFilter() is true then; the next
\* filter(v) takes v out again and leaves the sequence as it was, [] -> [v]
\* -> [] from the empty set, where hasFilter() is false at the end.
C7_ToggleAppendsThenRemoves ==
    /\ (/\ call.op = "filter" /\ call.arg \in PlainValues
        /\ call.arg \notin Range(before.filters)) =>
           /\ _filters = Append(before.filters, call.arg)
           /\ defaultHasFilterHandler(_filters, Undefined)
    /\ (/\ ToggledTwice /\ call.arg \in PlainValues
        /\ call.arg \notin Range(before2.filters)) =>
           /\ before.filters = Append(before2.filters, call.arg)
           /\ _filters = before2.filters
           /\ before2.filters = << >> =>
                 ~defaultHasFilterHandler(_filters, Undefined)

C7_Witness ==
    /\ ToggledTwice /\ call.arg \in PlainValues
    /\ Len(before2.filters) >= 2
    /\ before.filters = Append(before2.filters, call.arg)
    /\ _filters = before2.filters

\* one toggle of the value f on the list fs, said with equality of values
Toggled(fs, f) ==
    IF f \in Range(fs) THEN SelectSeq(fs, LAMBDA g : g # f) ELSE Append(fs, f)

\* the hasFilterHandler calls of the trace that probe a value
ProbeCalls == SelectSeq(trace, LAMBDA x : x.e = "hasFilterHandler"
                                          /\ x.arg # Undefined)

Distinct(seq) == \A i, j \in 1..Len(seq) : seq[i] = seq[j] => i = j

\* C8: a batch marker [[v1..vn]] is toggled element by element, in order,
\* each element against the list left by the elements before it, with one
\* filter-handler call and one filtered event (payload: the batch) for the
\* whole batch; distinct values on an empty set give [v1..vn], and the same
\* batch again gives []; an array of arrays that carries isFiltered is
\* toggled as one value.
C8_BatchToggle ==
    /\ (call.op = "filter" /\ call.arg \in Batches) =>
          LET items == call.arg.items IN
          /\ Len(ProbeCalls) = Len(items)
          /\ \A j \in 1..Len(items) :
                /\ ProbeCalls[j].arg = items[j]
                /\ ProbeCalls[j].fs =
                      IF j = 1 THEN before.filters
                      ELSE Toggled(ProbeCalls[j - 1].fs, items[j - 1])
          /\ _filters = Toggled(ProbeCalls[Len(items)].fs, items[Len(items)])
          /\ Len(Only(trace, {"filterHandler"})) = (IF Bound THEN 1 ELSE 0)
          /\ Len(Only(trace, {"filtered"})) = 1
          /\ \A i \in 1..Len(trace) :
                trace[i].e = "filtered" => trace[i].arg = call.arg
          /\ (before.filters = << >> /\ Distinct(items)) => _filters = items
          /\ (/\ before2 # NoSnapshot /\ before2.filters = << >>
              /\ Distinct(items)) => _filters = << >>
    /\ (call.op = "filter" /\ isArrayOfArrays(call.arg)
        /\ hasIsFiltered(call.arg)) =>
          /\ Len(ProbeCalls) = 1
          /\ ProbeCalls[1].arg = call.arg
          /\ _filters = Toggled(before.filters, call.arg)

C8_Witness ==
    /\ call.op = "filter"
    /\ call.arg = Batch(<< Num(2), RangedFilter(1, 3), Num(1) >>)
    /\ before2 # NoSnapshot /\ before2.filters = << >>
    /\ before.filters = call.arg.items
    /\ _filters = << >>

\* the positions of the trace holding an entry named in names
Positions(names) == { i \in 1..Len(trace) : trace[i].e \in names }

----------------------------------------------------------------------------
(* Properties of the render lifecycle *)

Once(name) == Cardinality(Positions({name})) = 1
Pos(name) == CHOOSE i \in Positions({name}) : TRUE
DeferredRender == call.op = "render" /\ isDeferred(_conf, _svg)

\* C10: in a render() with transitionDuration > 0 and a drawing surface the
\* steps come in the order preRender, mandatory-attribute checks, draw step,
\* pretransition; renderlet and postRender do not fire in the call: they
\* fire, renderlet first, when the transition ends.  A call the check stops
\* fires preRender only and schedules nothing.
C10_RenderOrder ==
    /\ DeferredRender =>
          /\ Once("preRender") /\ Pos("preRender") = 1
          /\ \A i \in Positions({"checkForMandatoryAttributes"}) : i > 1
          /\ Positions({"renderlet", "postRender", "preRedraw", "postRedraw"}) = {}
          /\ IF call.ret = This
             THEN /\ Once("_doRender") /\ Once("pretransition")
                  /\ Cardinality(Positions({"checkForMandatoryAttributes"}))
                        = Len(_mandatoryAttributesList)
                  /\ \A i \in Positions({"checkForMandatoryAttributes"}) :
                        i < Pos("_doRender")
                  /\ Pos("_doRender") < Pos("pretransition")
                  /\ Once("transition") /\ Pos("pretransition") < Pos("transition")
                  /\ pending # << >> /\ pending[Len(pending)] = "postRender"
             ELSE /\ Positions({"_doRender", "pretransition", "transition"}) = {}
                  /\ Once("InvalidStateException")
    /\ call.op = "transitionEnd" =>
          /\ Len(trace) = 2
          /\ trace[1].e = "renderlet"
          /\ trace[2].e \in {"postRender", "postRedraw"}
    /\ Positions({"postRender"}) # {} =>
          \/ call.op = "transitionEnd"
          \/ call.op = "render" /\ ~isDeferred(_conf, _svg)

C10_Witness ==
    /\ DeferredRender /\ call.ret = This
    /\ _mandatoryAttributesList = << "group" >>
    /\ _legend
    /\ pending = << "postRedraw", "postRender" >>

----------------------------------------------------------------------------
(* Properties of the mandatory-attribute check *)

DefaultList == _mandatoryAttributesList = << "dimension", "group" >>
NothingDrawn ==
    Positions({"_doRender", "pretransition", "transition", "renderlet",
               "postRender"}) = {}

\* C11: a render() of a chart with the constructor's mandatory list, its
\* dimension bound and its group not bound throws the exception that names
\* the attribute "group", and in that call nothing is drawn and neither
\* pretransition, renderlet nor postRender fires.
C11_MissingGroupIsNamed ==
    (call.op = "render" /\ DefaultList /\ Bound /\ ~_group) =>
        /\ call.ret = Threw("InvalidStateException")
        /\ Once("InvalidStateException")
        /\ trace[Pos("InvalidStateException")].arg = Attr("group")
        /\ NothingDrawn

\* C12: a render() of a chart with the constructor's mandatory list, its
\* dimension and its group both bound, passes the checks without an
\* exception and runs the draw step exactly once.
C12_BoundChartRenders ==
    (call.op = "render" /\ DefaultList /\ Bound /\ _group) =>
        /\ call.ret = This
        /\ Positions({"InvalidStateException"}) = {}
        /\ Once("_doRender")

----------------------------------------------------------------------------
(* replaceFilter against filterAll followed by filter *)

\* the chart after filterAll() then filter(v), from the filters fs
filterAllThenFilter(fs, dim, v) ==
    LET a == filterSet(_conf, _root, controls, fs, Null, << >>)
        b == filterSet(_conf, _root, a.controls, a.filters, v, << >>)
    IN  [filters |-> b.filters,
         dimFilter |-> dimAfter(dimAfter(dim, a.dim), b.dim)]

\* C20: replaceFilter(v) ends in the state filterAll() followed by filter(v)
\* ends in: from every filter set and for every v the chart holds the same
\* filter sequence and the dimension has the same filter applied.
C20_ReplaceIsFilterAllThenFilter ==
    call.op = "replaceFilter" =>
        \E r \in { filterAllThenFilter(before.filters, before.dimFilter,
                                       call.arg) } :
            /\ _filters = r.filters
            /\ dimFilter = r.dimFilter

C20_Witness ==
    /\ call.op = "replaceFilter" /\ Bound
    /\ Len(before.filters) = 2
    /\ call.arg \in Range(before.filters)
    /\ _filters = << call.arg >>
    /\ dimFilter # before.dimFilter

----------------------------------------------------------------------------
(* Properties of the cached size *)

Reads == {"widthGet", "heightGet"}
Returned == call.ret # Threw("TypeError")
\* the box side the calculator was called with in the last read
SideRead == trace[1].arg.xs[1]

\* C16: the cached width and height are discarded by render() and by the
\* setter of each, and by nothing else: a redraw() (like every other call)
\* leaves a cached size as it was, and a read with a cached size returns it
\* without calling the calculator, whatever the root's box is now; the first
\* read after render() or after the setter calls the calculator again.
C16_CacheInvalidation ==
    /\ call.op = "render" => _width = 0 /\ _height = 0
    /\ call.op = "width" => _width = 0 /\ _height = before.height
    /\ call.op = "height" => _height = 0 /\ _width = before.width
    /\ call.op = "redraw" =>
          /\ before.width # 0 => _width = before.width
          /\ before.height # 0 => _height = before.height
    /\ (call.op \notin {"new", "render", "width"} /\ before.width # 0) =>
          _width = before.width
    /\ (call.op \notin {"new", "render", "height"} /\ before.height # 0) =>
          _height = before.height
    /\ (call.op = "widthGet" /\ Returned) =>
          IF before.width # 0
          THEN trace = << >> /\ call.ret = Num(before.width)
          ELSE /\ Len(trace) = 1 /\ trace[1].e = "_widthCalc"
               /\ call.ret = Num(_width) /\ _width # 0
    /\ (call.op = "heightGet" /\ Returned) =>
          IF before.height # 0
          THEN trace = << >> /\ call.ret = Num(before.height)
          ELSE /\ Len(trace) = 1 /\ trace[1].e = "_heightCalc"
               /\ call.ret = Num(_height) /\ _height # 0

C16_Witness ==
    /\ call.op = "redraw" /\ call.ret = This /\ _svg
    /\ before.width = 300 /\ _width = 300
    /\ before.height = DefaultMinSize /\ _height = DefaultMinSize
    /\ _widthCalc = DefaultCalc /\ _heightCalc = DefaultCalc

\* what a calculator must give for a root whose box side is side: the number
\* of width(n), f(root node) of width(f), and for the default the box side
\* when it exceeds the minimum and the minimum otherwise
Expected(c, side, min) ==
    IF c.kind = "fixed" THEN c.n
    ELSE IF c.kind = "custom" THEN customCalc(side)
    ELSE IF side > min THEN side ELSE min

\* C17: width(n) with a truthy number installs the constant n, width(f) the
\* function f, width(falsy) the default calculator; only width(x) changes
\* what is installed; a read that computes returns what the installed
\* calculator must give for the root's box, and a cached width is always
\* such a value.  The same holds for height with minHeight.
C17_SizeCalculators ==
    /\ call.op = "width" =>
          _widthCalc = (IF call.arg \in {Num(0), Null} THEN DefaultCalc
                        ELSE IF call.arg = Function THEN CustomCalc
                        ELSE [kind |-> "fixed", n |-> call.arg.xs[1]])
    /\ call.op = "height" =>
          _heightCalc = (IF call.arg \in {Num(0), Null} THEN DefaultCalc
                         ELSE IF call.arg = Function THEN CustomCalc
                         ELSE [kind |-> "fixed", n |-> call.arg.xs[1]])
    /\ (call.op \notin {"new", "width"}) => _widthCalc = before.widthCalc
    /\ (call.op \notin {"new", "height"}) => _heightCalc = before.heightCalc
    /\ (call.op = "widthGet" /\ Returned /\ before.width = 0) =>
          call.ret = Num(Expected(_widthCalc, SideRead, _conf.minWidth))
    /\ (call.op = "heightGet" /\ Returned /\ before.height = 0) =>
          call.ret = Num(Expected(_heightCalc, SideRead, _conf.minHeight))
    /\ (call.op \in Reads /\ Returned) =>
          call.ret = Num(IF call.op = "widthGet" THEN _width ELSE _height)
    /\ _width # 0 =>
          \E side \in BoxSizes :
              _width = Expected(_widthCalc, side, _conf.minWidth)
    /\ _height # 0 =>
          \E side \in BoxSizes :
              _height = Expected(_heightCalc, side, _conf.minHeight)

C17_Witness ==
    /\ call.op = "widthGet" /\ Returned /\ before.width = 0
    /\ _widthCalc = DefaultCalc /\ SideRead = 100
    /\ call.ret = Num(DefaultMinSize)
    /\ _heightCalc = FixedCalc(FixedSize) /\ _height = FixedSize

----------------------------------------------------------------------------
(* Properties of the configuration *)

\* C18: configure(patch) is a shallow merge: the configuration has the keys
\* it had and the keys of the patch; every key of the patch has the value
\* the patch gives, whole (an object value replaces the old object, it is
\* not merged with it); every other key has the value it had; so of two
\* calls the later decides each key both give.  Nothing else of the chart
\* changes.
C18_ConfigureShallowMerge ==
    call.op = "configure" =>
        /\ DOMAIN _conf = (DOMAIN before.conf) \cup (DOMAIN call.arg)
        /\ \A key \in DOMAIN call.arg : _conf[key] = call.arg[key]
        /\ \A key \in (DOMAIN before.conf) \ (DOMAIN call.arg) :
              _conf[key] = before.conf[key]
        /\ _filters = before.filters /\ dimFilter = before.dimFilter
        /\ _width = before.width /\ _height = before.height

C18_Witness ==
    /\ call.op = "configure"
    /\ "margins" \in DOMAIN before.conf
    /\ before.conf.margins = [top |-> 10]
    /\ before.conf.minWidth = 100
    /\ call.arg = [margins |-> [left |-> 30]]
    /\ _conf.margins = [left |-> 30]
    /\ _conf.minWidth = 100

----------------------------------------------------------------------------
(* Properties of the chart group *)

GroupCalls == {"redrawGroup", "renderGroup"}

\* the completion callback was called with an error in the last step
ErrorReported ==
    \E i \in DOMAIN trace :
        trace[i].e = "callback" /\ trace[i].arg = Bool(TRUE)

\* the groups that hold this chart as a member
GroupsOfThis == { g \in GroupNames : isMember(charts[g], "this") }

\* C13: when the commit handler calls the completion callback with an
\* error, at once or later, neither renderAll() nor redrawAll() runs and no
\* member, this chart included, is rendered or redrawn; the error is logged;
\* no exception leaves the call, and redrawGroup() and renderGroup() return
\* the chart.
C13_CommitErrorSkipsFanOut ==
    ErrorReported =>
        /\ call.op \in GroupCalls \cup {"commitCallback"}
        /\ Positions({"renderAll", "redrawAll", "render", "redraw",
                      "preRender", "preRedraw", "_doRender", "_doRedraw",
                      "InvalidStateException", "TypeError"}) = {}
        /\ Once("console.log")
        /\ call.op \in GroupCalls =>
              /\ call.ret = This
              /\ Once("commitHandler") /\ Pos("commitHandler") = 1
        /\ call.op = "commitCallback" => call.ret = Undefined
        /\ _width = before.width /\ _height = before.height
        /\ charts = before.charts /\ _chartGroup = before.chartGroup

C13_Witness ==
    /\ call.op = "redrawGroup" /\ ErrorReported
    /\ _chartGroup = "g1"
    /\ charts["g1"] = << SiblingOf("g1"), "this" >>
    /\ call.ret = This

\* C14: the flag the commit handler is given tells a render from a redraw:
\* of two invocations awaiting completion, one made by renderGroup() and
\* one made by redrawGroup(), the flags differ.
C14_FlagTellsRenderFromRedraw ==
    \A i, j \in DOMAIN commits :
        commits[i].then # commits[j].then => commits[i].flag # commits[j].flag

\* C15: a top-level chart is registered in exactly one group, whatever
\* anchor(parent, group) and chartGroup(group) calls were made on it.
C15_RegisteredInOneGroup ==
    _isChild = "false" => Cardinality(GroupsOfThis) = 1

\* C19: anchor(parent, group) with a falsy parent throws
\* BadArgumentException and leaves the anchor, the root, the is-child flag,
\* the group reference and the registrations as they were before the call.
C19_FailedAnchorChangesNothing ==
    (call.op = "anchor" /\ call.arg.parent = "undefined") =>
        /\ call.ret = Threw("BadArgumentException")
        /\ _anchor = before.anchor
        /\ _root = before.root
        /\ _isChild = before.isChild
        /\ _chartGroup = before.chartGroup
        /\ charts = before.charts

----------------------------------------------------------------------------
(* Uniqueness of the filter values *)

\* C30: with the default handlers the filter list never holds a value
\* twice, after any sequence of filter(v), batch filter([[..]]),
\* replaceFilter(v) and filterAll() calls from the empty list.
C30_NoDuplicates == Distinct(_filters)

C30_Witness ==
    /\ call.op = "filter"
    /\ call.arg = Batch(<< Num(2), RangedFilter(1, 3), Num(1) >>)
    /\ before.filters = << Num(1), Num(2) >>
    /\ _filters = << RangedFilter(1, 3) >>

----------------------------------------------------------------------------
(* Properties of the apply handler *)

\* the list the has, add, remove and reset handlers produce in the last call
Produced ==
    LET r0 == [filters |-> IF call.op = "replaceFilter" THEN << >>
                           ELSE before.filters,
               trace |-> << >>]
    IN  IF isBatch(call.arg) THEN toggleEach(r0, call.arg.items).filters
        ELSE IF call.arg = Null THEN << >>
        ELSE toggle(r0, call.arg).filters

C27_ThrowLeavesFilters ==
    (call.op \in {"filter", "replaceFilter"} /\ call.ret = Threw("Error")) =>
        /\ Positions({"filtered"}) = {}
        /\ _filters = before.filters

----------------------------------------------------------------------------
(* Properties of redraw and of overlapping calls *)

\* the names of the entries of the trace, in order
Names == [i \in 1..Len(trace) |-> trace[i].e]

\* the terminal event of a call, and the draw step it runs
Terminal(op) == IF op = "render" THEN "postRender" ELSE "postRedraw"
DrawStep(op) == IF op = "render" THEN "_doRender" ELSE "_doRedraw"
Drawing == call.op \in {"render", "redraw"} /\ call.ret = This

Without(seq, i) == SubSeq(seq, 1, i - 1) \o SubSeq(seq, i + 1, Len(seq))

\* the step was an 'end' callback that fired renderlet and then the event
\* of the one waiting callback it removed
FiresItsOwn ==
    \E i \in 1..Len(before.pending) :
        /\ pending = Without(before.pending, i)
        /\ Names = << "renderlet", before.pending[i] >>

\* C22: a redraw() that returns resizes the surface, fires preRedraw, runs
\* the incremental draw step, renders the legend when there is one, and then
\* activates the renderlets tagged postRedraw, in that order; a redraw()
\* fires neither preRender nor postRender and schedules only postRedraw, a
\* render() fires neither preRedraw nor postRedraw and schedules only
\* postRender, and a callback that runs later fires the event of the call
\* that scheduled it, whatever other callbacks are waiting.
C22_RedrawOrder ==
    /\ (call.op = "redraw" /\ call.ret = This) =>
          \/ /\ Names = << "sizeSvg", "preRedraw", "_doRedraw" >>
                        \o (IF _legend THEN << "legend.render" >> ELSE << >>)
                        \o << "pretransition", "transition" >>
             /\ pending = Append(before.pending, "postRedraw")
          \/ /\ Names = << "sizeSvg", "preRedraw", "_doRedraw" >>
                        \o (IF _legend THEN << "legend.render" >> ELSE << >>)
                        \o << "pretransition", "renderlet", "postRedraw" >>
             /\ pending = before.pending
    /\ call.op = "redraw" =>
          /\ Positions({"preRender", "postRender", "_doRender"}) = {}
          /\ call.ret # This => pending = before.pending
    /\ call.op = "render" =>
          /\ Positions({"preRedraw", "postRedraw", "_doRedraw",
                        "sizeSvg"}) = {}
          /\ pending \in {before.pending,
                          Append(before.pending, "postRender")}
    /\ call.op = "transitionEnd" => FiresItsOwn

C22_Witness ==
    /\ call.op = "redraw" /\ call.ret = This /\ _legend
    /\ before.pending = << "postRender" >>
    /\ pending = << "postRender", "postRedraw" >>
    /\ Len(trace) = 6

\* C23: wherever renderlet fires, in a render(), a redraw() or a callback
\* that runs when a transition ends, the next event is the terminal event of
\* the same activation and no terminal event fires without a renderlet just
\* before it; in a call renderlet comes after the call's pretransition, and
\* a callback is scheduled only by a call that has fired pretransition and
\* has not fired renderlet.
C23_ActivationOrder ==
    /\ \A i \in Positions({"renderlet"}) :
          /\ i < Len(trace)
          /\ trace[i + 1].e \in {"postRender", "postRedraw"}
          /\ call.op \in {"render", "redraw"} =>
                /\ trace[i + 1].e = Terminal(call.op)
                /\ \E j \in Positions({"pretransition"}) : j < i
    /\ \A i \in Positions({"postRender", "postRedraw"}) :
          i > 1 /\ trace[i - 1].e = "renderlet"
    /\ Drawing => Once("pretransition")
    /\ (call.op # "new" /\ Len(pending) > Len(before.pending)) =>
          /\ Drawing /\ Once("pretransition")
          /\ Positions({"renderlet", "postRender", "postRedraw"}) = {}
          /\ pending = Append(before.pending, Terminal(call.op))
    /\ call.op = "transitionEnd" =>
          \E i \in 1..Len(before.pending) :
              Names = << "renderlet", before.pending[i] >>

C23_Witness ==
    /\ call.op = "transitionEnd"
    /\ before.pending = << "postRender", "postRedraw" >>
    /\ pending = << "postRender" >>
    /\ Names = << "renderlet", "postRedraw" >>

\* C25: a render() or redraw() that returns on a chart whose
\* transitionDuration is 0, or that has no drawing surface, ends with
\* pretransition, renderlet and its terminal event, each fired once and in
\* that order, starts no transition and leaves the waiting callbacks as they
\* were.
C25_NoTransitionIsSynchronous ==
    (Drawing /\ (_conf.transitionDuration = 0 \/ ~_svg)) =>
        /\ Len(trace) >= 3
        /\ SubSeq(Names, Len(trace) - 2, Len(trace))
              = << "pretransition", "renderlet", Terminal(call.op) >>
        /\ Once("pretransition") /\ Once("renderlet")
        /\ Once(Terminal(call.op))
        /\ Positions({"transition"}) = {}
        /\ pending = before.pending

C25_Witness ==
    /\ call.op = "redraw" /\ call.ret = This
    /\ _conf.transitionDuration > 0 /\ ~_svg
    /\ before.pending = << "postRender" >>
    /\ Positions({"postRedraw"}) # {}

\* C28: a render() or redraw() that returns runs its draw step once and
\* fires pretransition once, whatever callbacks are waiting, and with a
\* transition it adds one callback of its own to those waiting; a callback
\* that runs fires renderlet once and the terminal event of its call once,
\* and only itself stops waiting; no other step adds or removes a callback.
C28_OverlappingCallsEachRun ==
    /\ Drawing =>
          /\ Once(DrawStep(call.op)) /\ Once("pretransition")
          /\ Pos(DrawStep(call.op)) < Pos("pretransition")
          /\ (_conf.transitionDuration > 0 /\ _svg) =>
                /\ pending = Append(before.pending, Terminal(call.op))
                /\ Positions({"renderlet"}) = {}
    /\ call.op = "transitionEnd" =>
          /\ FiresItsOwn
          /\ Len(pending) = Len(before.pending) - 1
    /\ call.op \notin {"new", "render", "redraw", "transitionEnd"} =>
          pending = before.pending

C28_Witness ==
    /\ call.op = "redraw" /\ call.ret = This
    /\ before.pending = << "postRedraw" >>
    /\ pending = << "postRedraw", "postRedraw" >>
    /\ Once("_doRedraw") /\ Once("pretransition")

----------------------------------------------------------------------------
(* Properties of child charts and of the commit gate *)

Registrations == Positions({"register", "deregister"})

\* C24: anchor(parentChart, g) and, on a child chart, chartGroup(g) call
\* neither register nor deregister and leave every group's members as they
\* were; a chart that is a child is a member of no group.
C24_ChildrenUnregistered ==
    /\ (call.op = "anchor" /\ call.arg.parent = "chart") =>
          Registrations = {} /\ charts = before.charts
    /\ (call.op = "chartGroup" /\ before.isChild = "true") =>
          Registrations = {} /\ charts = before.charts
    /\ _isChild = "true" => GroupsOfThis = {}

\* the entries of the trace made by a fan-out: renderAll() or redrawAll()
\* and what the members do in it
FanOut ==
    Positions({"renderAll", "redrawAll", "render", "redraw", "preRender",
               "preRedraw", "_doRender", "_doRedraw"})

\* the completion callback was called without error in the last step
SuccessReported ==
    { i \in DOMAIN trace :
          trace[i].e = "callback" /\ trace[i].arg = Bool(FALSE) }

KindOf(op) == IF op = "renderGroup" THEN "render" ELSE "redraw"

\* C26: a redrawGroup() or renderGroup() of a chart that has a group and no
\* commit handler calls redrawAll() or renderAll() once, as its first step,
\* and invokes no handler; with a commit handler the call invokes the
\* handler first and once, calls redrawAll() or renderAll() at most once,
\* and every step of a fan-out, in the call or when the handler completes
\* later, comes after a completion callback without error; a call whose
\* handler has not completed has fanned out nothing.
C26_FanOutBehindCommit ==
    /\ (call.op \in GroupCalls /\ _conf.commitHandler = "undefined"
           /\ _chartGroup # "undefined") =>
          /\ Once(AllOf(KindOf(call.op)))
          /\ Pos(AllOf(KindOf(call.op))) = 1
          /\ Positions({"commitHandler", "callback"}) = {}
    /\ (call.op \in GroupCalls /\ _conf.commitHandler # "undefined") =>
          /\ Once("commitHandler") /\ Pos("commitHandler") = 1
          /\ Cardinality(Positions({"renderAll", "redrawAll"})) <= 1
          /\ Positions({AllOf(KindOf(call.op))})
                = Positions({"renderAll", "redrawAll"})
          /\ \A j \in FanOut : \E i \in SuccessReported : i < j
          /\ SuccessReported = {} => FanOut = {}
    /\ call.op = "commitCallback" =>
          /\ trace[1].e = "callback"
          /\ \A j \in FanOut : \E i \in SuccessReported : i < j
          /\ (SuccessReported # {} /\ _chartGroup # "undefined") =>
                Cardinality(Positions({"renderAll", "redrawAll"})) = 1

C26_Witness ==
    /\ call.op = "renderGroup" /\ _conf.commitHandler # "undefined"
    /\ SuccessReported = {2}
    /\ _chartGroup = "default"
    /\ charts["default"] = << SiblingOf("default"), "this" >>
    /\ Positions({"renderAll"}) = {3}
    /\ Positions({"preRender"}) # {}

----------------------------------------------------------------------------
(* Properties of two charts on one dimension *)

\* the filter a dimension holds when it was last written for the list fs
DerivedFrom(fs) ==
    [op |-> ShapeCall(fs),
     arg |-> IF Len(fs) = 0 THEN Null
             ELSE IF Len(fs) = 1 THEN fs[1] ELSE Undefined,
     acc |-> IF Len(fs) > 1
             THEN { d \in Records :
                      \E i \in 1..Len(fs) :
                          \/ fs[i] = d
                          \/ /\ fs[i].k = "RangedFilter"
                             /\ fs[i].xs[1] <= d.xs[1] /\ d.xs[1] < fs[i].xs[2] }
             ELSE {}]

\* C29: with two charts on one dimension, after a filter(b) of the sibling
\* the dimension holds the filter derived from the sibling's list alone and
\* this chart's list is as it was: when the call before was a filter(a) of
\* this chart that added a, a is still in the list and hasFilter() is true;
\* after a filter(a) of this chart the dimension holds the filter derived
\* from this chart's list alone and the sibling's list is as it was.
C29_LastWriteWins ==
    /\ (call.op = "sibling.filter" /\ Bound) =>
          /\ dimFilter = DerivedFrom(siblingFilters)
          /\ _filters = before.filters
          /\ (call.prev.op = "filter"
                /\ call.prev.arg \in Range(before.filters)) =>
                /\ call.prev.arg \in Range(_filters)
                /\ defaultHasFilterHandler(_filters, Undefined)
    /\ (call.op = "filter" /\ Bound) =>
          /\ dimFilter = DerivedFrom(_filters)
          /\ siblingFilters = before.siblingFilters

C29_Witness ==
    /\ call.op = "sibling.filter" /\ Bound
    /\ call.prev = [op |-> "filter", arg |-> Num(1)]
    /\ call.arg = Num(2)
    /\ _filters = << RangedFilter(1, 3), Num(1) >>
    /\ siblingFilters = << Num(2) >>
    /\ dimFilter = [op |-> "dimension.filterExact", arg |-> Num(2),
                    acc |-> {}]

----------------------------------------------------------------------------
(* The list applied to the dimension and the list of the chart *)

\* a mutation of a chart with a dimension that has a filter method returned
Applied == call.op \in Mutators /\ Bound /\ call.ret = This

\* the configured apply handler returns the list it was given, or nothing
HandlerKeepsList == _conf.filterHandler \in {"default", "returnsUndefined"}

----------------------------------------------------------------------------
(* The group of the chart and its registration *)

\* C32: a top-level chart that has been anchored is a member of the group
\* chartGroup() returns, after every anchor(parent, group) and
\* chartGroup(group) call, the calls that throw included, so that a
\* redrawGroup() or renderGroup() of the chart redraws or renders the chart
\* itself.
C32_GroupHoldsChart ==
    _isChild = "false" =>
        /\ _chartGroup # "undefined"
        /\ isMember(charts[_chartGroup], "this")
        /\ (call.op \in GroupCalls /\ _conf.commitHandler = "undefined") =>
              \E i \in Positions({"preRender", "sizeSvg"}) : TRUE

====
